---- MODULE Spec2Model ----
(***************************************************************************)
(* A model of the hypergraph library: the Edge / Hypergraph classes of     *)
(* src/hypergraph/core.py and src/hypergraph.py, and the two orientation   *)
(* algorithms of src/hypergraph.py.                                        *)
(*                                                                         *)
(* Vertices are integers; 0 is the one falsy vertex value (Python's        *)
(* `not 0` is True).  The absent head is None.  Weights are integers in    *)
(* units of the tolerance 1e-4 of the local search, so that the test       *)
(* `a + 1e-4 < b` reads a + Tol < b and the float 1.0 is One; sums are     *)
(* exact.  Iteration over a Python set or dict has no specified order:     *)
(* every order is a behaviour of the model.  The orientation algorithms    *)
(* run on hypergraphs whose vertices are named by truthy values.           *)
(***************************************************************************)
EXTENDS Integers, FiniteSets, Sequences, TLC

VARIABLES
    impl,      \* which source module the Hypergraph object comes from
    G,         \* the Hypergraph object driven by add/remove calls
    last,      \* the last call on G or of Edge, and how it ended
    vhash,     \* the __hash__ value of each vertex value
    made,      \* the Edge objects built by calls of Edge
    alg,       \* the orientation algorithm running
    H,         \* its input hypergraph
    L,         \* the orientation it builds
    pc,        \* its position
    search,    \* the locals of find_reducing_path
    path,      \* the path find_reducing_path returned last; <<>> is None
    todo,      \* the edges of H the construction loop has not reached yet
    run,       \* 1: the call on the caller's H; 2: the call on its own output
    moves,     \* path reversals, NR moves and NI swaps of this call, counted
    refs       \* which set objects L._vertices and L._edges are

vars == <<impl, G, last, vhash, made, alg, H, L, pc, search, path, todo, run, moves,
          refs>>
dsVars == <<impl, G, last, vhash, made>>
orVars == <<alg, H, L, pc, search, path, todo, run, moves, refs>>

----------------------------------------------------------------------------
(* Bounds of the model *)

\* vertex values of the data-structure model are 0 .. NumV-1
NumV == 2
\* the data-structure model holds at most this many edges, and at most this
\* many Edge objects are built
MaxEdges == 2
\* weights recorded by the data-structure model are 0.0, 1.0 .. MaxWeight
MaxWeight == 2
\* the orientation algorithms run on hypergraphs over vertices 1 .. n, n <= MaxV
MaxV == 3
\* with at most MaxE edges
MaxE == 3
\* of weight 1.0 .. MaxW, or 1.0001 (the weighted algorithm)
MaxW == 2
\* reversals, moves and swaps are counted up to MovesCap
MovesCap == 3
\* the __hash__ of a vertex value is one of 0 .. MaxHash
MaxHash == 2

----------------------------------------------------------------------------
(* Python values *)

\* head=None
None == -1
\* a value whose __hash__ is None (a list, a dict)
Unhashable == -2

\* Python truthiness of a head value: None and 0 are falsy
Truthy(x) == x # None /\ x # 0

\* the tolerance 1e-4 of the local search and of __eq__: the unit of weights
Tol == 1
\* the float 1.0, the default weight, in that unit
One == 10000

Vertices == 0 .. (NumV - 1)
WeightValues == { w * One : w \in 0 .. MaxWeight }

----------------------------------------------------------------------------
(* Edge *)

\* Edge(edge, head): __new__ then __init__; the outcome and the value built
EdgeNew(members, head) ==
    IF Unhashable \in members
    THEN [exc |-> "TypeError"]
    ELSE IF members = {}
    THEN [exc |-> "ValueError"]
    ELSE IF ~(~Truthy(head) \/ head \in members)
    THEN [exc |-> "ValueError"]
    ELSE [exc |-> "none", edge |-> [members |-> members, head |-> head]]

\* Edge(edge): an Edge rebuilt from another's members, with no head
Unhead(e) == [members |-> e.members, head |-> None]

\* every Edge value the constructor can build over a set of vertex values
EdgeValues(V) ==
    { EdgeNew(m, h).edge :
        <<m, h>> \in { x \in (SUBSET V) \X (V \cup {None}) :
                          EdgeNew(x[1], x[2]).exc = "none" } }

\* frozenset.__hash__: a function of the hashes of the members alone
\* (CPython shuffles and xors them; the model adds them up)
RECURSIVE SetHash(_, _)
SetHash(vh, members) ==
    IF members = {} THEN 0
    ELSE LET v == CHOOSE x \in members : TRUE
         IN  (2 * vh[v] + 1) + SetHash(vh, members \ {v})

\* Edge.__hash__: super().__hash__() + (self.head and self.head.__hash__() or 0)
EdgeHash(vh, e) ==
    SetHash(vh, e.members)
        + (IF Truthy(e.head) /\ vh[e.head] # 0 THEN vh[e.head] ELSE 0)

\* Edge.__eq__: frozenset.__eq__(self, other) and self.head is other.head
EdgeEq(e1, e2) == e1.members = e2.members /\ e1.head = e2.head

----------------------------------------------------------------------------
(* Hypergraph *)

NoObject == [vertices |-> {}, edges |-> {}, weights |-> <<>>,
             directed |-> FALSE, alive |-> FALSE, cls |-> "Hypergraph"]

\* the weight dict with key e set to w
SetWeight(weights, e, w) ==
    [x \in (DOMAIN weights) \cup {e} |-> IF x = e THEN w ELSE weights[x]]

\* the weight dict with key e deleted
DelWeight(weights, e) ==
    [x \in (DOMAIN weights) \ {e} |-> weights[x]]

\* the assertions guarding an edge, in __init__ and in add_edge
ValidEdge(vertices, directed, e) ==
    /\ \A v \in e.members : v \in vertices
    /\ \/ (~directed /\ ~Truthy(e.head))
       \/ (directed /\ Truthy(e.head))

\* Hypergraph.__init__
HypergraphInit(vertices, edges, weights, directed) ==
    IF Unhashable \in vertices
    THEN [exc |-> "TypeError", obj |-> NoObject]
    ELSE IF \E e \in edges : ~ValidEdge(vertices, directed, e)
    THEN [exc |-> "ValueError", obj |-> NoObject]
    ELSE [exc |-> "none",
          obj |-> [vertices |-> vertices,
                   edges |-> edges,
                   weights |-> [e \in edges |->
                                  IF e \in DOMAIN weights THEN weights[e] ELSE One],
                   directed |-> directed,
                   alive |-> TRUE,
                   cls |-> "Hypergraph"]]

\* Graph.__init__: the arity assertion, then Hypergraph.__init__
GraphInit(vertices, edges, weights, directed) ==
    IF \E e \in edges : Cardinality(e.members) # 2
    THEN [exc |-> "ValueError", obj |-> NoObject]
    ELSE LET r == HypergraphInit(vertices, edges, weights, directed)
         IN  IF r.exc # "none" THEN r
             ELSE [exc |-> "none", obj |-> [r.obj EXCEPT !.cls = "Graph"]]

\* Hypergraph.uniform: the scan of the edges
HypergraphUniform(g, k) == \A e \in g.edges : Cardinality(e.members) = k

\* uniform(k) as the object's class answers it: Graph.uniform is `k == 2`
Uniform(g, k) == IF g.cls = "Graph" THEN k = 2 ELSE HypergraphUniform(g, k)

\* Hypergraph.add_vertex
AddVertex(g, v) ==
    IF v = Unhashable
    THEN [exc |-> "TypeError", obj |-> g]
    ELSE [exc |-> "none", obj |-> [g EXCEPT !.vertices = @ \cup {v}]]

\* Hypergraph.add_edge
AddEdge(g, e, w) ==
    IF ~ValidEdge(g.vertices, g.directed, e)
    THEN [exc |-> "ValueError", obj |-> g]
    ELSE [exc |-> "none",
          obj |-> [g EXCEPT !.edges = @ \cup {e},
                            !.weights = SetWeight(@, e, w)]]

\* remove_edge without `del self.weights[edge]`
RemoveEdgeKeepsWeight(g, e) ==
    IF e \notin g.edges
    THEN [exc |-> "KeyError", obj |-> g]
    ELSE [exc |-> "none", obj |-> [g EXCEPT !.edges = @ \ {e}]]

\* Hypergraph.remove_edge: del self.weights[edge], then self._edges.remove(edge)
RemoveEdge(g, e) ==
    IF e \notin DOMAIN g.weights
    THEN [exc |-> "KeyError", obj |-> g]
    ELSE LET g1 == [g EXCEPT !.weights = DelWeight(@, e)]
         IN  IF e \notin g.edges
             THEN [exc |-> "KeyError", obj |-> g1]
             ELSE [exc |-> "none", obj |-> [g1 EXCEPT !.edges = @ \ {e}]]

\* remove_vertex without the loop over the edges
RemoveIncidentSkipped(g, rest, v) == [exc |-> "none", obj |-> g]

\* the loop of remove_vertex over a copy of the edge set
RECURSIVE RemoveIncident(_, _, _)
RemoveIncident(g, rest, v) ==
    IF rest = {}
    THEN [exc |-> "none", obj |-> g]
    ELSE LET e == CHOOSE x \in rest : TRUE
             r == IF v \in e.members THEN RemoveEdge(g, e)
                                     ELSE [exc |-> "none", obj |-> g]
         IN  IF r.exc # "none" THEN r
             ELSE RemoveIncident(r.obj, rest \ {e}, v)

\* Hypergraph.remove_vertex of hypergraph/core.py
RemoveVertexCore(g, v) ==
    LET r == RemoveIncident(g, g.edges, v)
    IN  IF r.exc # "none" THEN r
        ELSE IF v \notin r.obj.vertices
        THEN [exc |-> "KeyError", obj |-> r.obj]
        ELSE [exc |-> "none", obj |-> [r.obj EXCEPT !.vertices = @ \ {v}]]

\* Hypergraph.remove_vertex of hypergraph.py: `self.edges()` calls the set
\* the property returns
RemoveVertexFlat(g, v) ==
    [exc |-> "TypeError", obj |-> g]

RemoveVertex(module, g, v) ==
    IF module = "core" THEN RemoveVertexCore(g, v) ELSE RemoveVertexFlat(g, v)

\* Hypergraph.adjacent
Adjacent(g, u, v) == \E e \in g.edges : u \in e.members /\ v \in e.members

\* Hypergraph.incident of hypergraph/core.py
Incident(g, tail, head) ==
    IF g.directed
    THEN \E e \in g.edges :
            tail \in e.members /\ head \in e.members /\ e.head = head
    ELSE Adjacent(g, tail, head)

\* Hypergraph.neighbors of hypergraph/core.py
NeighborsCore(g, vertex) ==
    { v \in g.vertices : Incident(g, vertex, v) } \ {vertex}

\* Hypergraph.neighbors of hypergraph.py
NeighborsFlat(g, vertex) ==
    { v \in g.vertices : Adjacent(g, vertex, v) } \ {vertex}

Neighbors(module, g, vertex) ==
    IF module = "core" THEN NeighborsCore(g, vertex) ELSE NeighborsFlat(g, vertex)

\* one term of the sums of degree / indegree: `weighted and self.weights[edge] or 1`;
\* the 1 is a count when unweighted and the weight 1.0 when weighted
Term(g, e, weighted) ==
    IF ~weighted THEN 1
    ELSE IF g.weights[e] # 0 THEN g.weights[e] ELSE One

RECURSIVE SumTerms(_, _, _)
SumTerms(g, es, weighted) ==
    IF es = {} THEN 0
    ELSE LET e == CHOOSE x \in es : TRUE
         IN  Term(g, e, weighted) + SumTerms(g, es \ {e}, weighted)

\* Hypergraph.degree
Degree(g, v, weighted) ==
    SumTerms(g, { e \in g.edges : v \in e.members }, weighted)

\* Hypergraph.indegree; `edge.head is vertex` is the equality of the model:
\* a vertex is one object, in the vertex set and in every edge holding it
Indegree(g, v, weighted) ==
    IF ~g.directed
    THEN Degree(g, v, weighted)
    ELSE SumTerms(g, { e \in g.edges : e.head = v }, weighted)


----------------------------------------------------------------------------
(* The data-structure machine: one Hypergraph object and the calls on it *)

Modules == {"core", "flat"}

\* the Edge values over the vertex values of the model
AllEdges == EdgeValues(Vertices)

EdgeSets == { s \in SUBSET AllEdges : Cardinality(s) <= MaxEdges }

\* the weights arguments tried at construction: a dict giving one weight to
\* some of the edges given and possibly to one edge that is not given
WeightArgs(edges) ==
    LET others == AllEdges \ edges
        keys == IF others = {} THEN edges
                ELSE edges \cup {CHOOSE o \in others : TRUE}
    IN  UNION { [K -> {w}] : <<K, w>> \in (SUBSET keys) \X WeightValues }

\* A Python set is an object: a write to it shows in every Hypergraph holding
\* it.  Set objects are told apart by a number.  The default argument set() of
\* Hypergraph.__init__ is one object, made when the class is defined
DefaultSet == 0
\* the objects H._vertices and H._edges, which the properties H.vertices and
\* H.edges hand out as they are
HSets == [vertices |-> 1, edges |-> 2]
\* L is not constructed yet
NoSets == [vertices |-> None, edges |-> None]

\* self._vertices = vertices: the object passed in, not a copy
CopyIsTheArgument(s, used) == s

\* copy(s): a new set object, none of those in use
Copy(s, used) == CHOOSE n \in 0 .. Cardinality(used) : n \notin used

\* Hypergraph.__init__: the objects self._vertices = copy(vertices) and
\* self._edges = copy(edges) of the new Hypergraph
InitSets(vertices, edges) ==
    LET used == {DefaultSet, HSets.vertices, HSets.edges}
        v == Copy(vertices, used)
    IN  [vertices |-> v, edges |-> Copy(edges, used \cup {v})]

\* h after the calls on the Hypergraph of set objects `sets` that made it g:
\* self._vertices.add and self._edges.add / remove write to the set objects
\* themselves, so h has the new value of each set object it shares
Seen(h, sets, g) ==
    [h EXCEPT !.vertices = IF sets.vertices = HSets.vertices
                           THEN g.vertices ELSE @,
              !.edges = IF sets.edges = HSets.edges THEN g.edges ELSE @]

NoSearch == [D |-> <<>>, u |-> None, marked |-> {}, Q |-> <<>>,
             cur |-> [v |-> None, path |-> <<>>], edges |-> {}]
NoMoves == [rev |-> 0, nr |-> 0, ni |-> 0]
\* one more reversal, move or swap on the count
Counted(n) == IF n < MovesCap THEN n + 1 ELSE n

\* no orientation algorithm is running
OrientIdle ==
    /\ alg = "none"
    /\ H = NoObject
    /\ L = NoObject
    /\ pc = "idle"
    /\ search = NoSearch
    /\ path = <<>>
    /\ todo = {}
    /\ run = 0
    /\ moves = NoMoves
    /\ refs = NoSets

\* no call of Edge is observed; the vertex values are small integers, which
\* hash to themselves
EdgeIdle ==
    /\ vhash = [v \in Vertices |-> v]
    /\ made = {}

InitHG ==
    /\ impl \in Modules
    /\ G = NoObject
    /\ last = [op |-> "none", exc |-> "none"]
    /\ EdgeIdle
    /\ OrientIdle

\* Hypergraph(vertices, edges, weights, directed)
Construct(vs, es, ws, d) ==
    /\ last.op = "none"
    /\ LET r == HypergraphInit(vs, es, ws, d)
       IN  /\ G' = r.obj
           /\ last' = [op |-> "__init__", exc |-> r.exc]
    /\ UNCHANGED <<impl, vhash, made, orVars>>

CallAddVertex(v) ==
    /\ G.alive
    /\ LET r == AddVertex(G, v)
       IN  /\ G' = r.obj
           /\ last' = [op |-> "add_vertex", exc |-> r.exc]
    /\ UNCHANGED <<impl, vhash, made, orVars>>

CallRemoveVertex(v) ==
    /\ G.alive
    /\ LET r == RemoveVertex(impl, G, v)
       IN  /\ G' = r.obj
           /\ last' = [op |-> "remove_vertex", exc |-> r.exc]
    /\ UNCHANGED <<impl, vhash, made, orVars>>

CallAddEdge(e, w) ==
    /\ G.alive
    /\ Cardinality(G.edges \cup {e}) <= MaxEdges
    /\ LET r == AddEdge(G, e, w)
       IN  /\ G' = r.obj
           /\ last' = [op |-> "add_edge", exc |-> r.exc]
    /\ UNCHANGED <<impl, vhash, made, orVars>>

CallRemoveEdge(e) ==
    /\ G.alive
    /\ LET r == RemoveEdge(G, e)
       IN  /\ G' = r.obj
           /\ last' = [op |-> "remove_edge", exc |-> r.exc]
    /\ UNCHANGED <<impl, vhash, made, orVars>>

\* the caller builds the object, once
CallConstruct ==
    /\ last.op = "none"
    /\ \E vs \in SUBSET (Vertices \cup {Unhashable}) :
       \E es \in EdgeSets :
       \E ws \in WeightArgs(es) :
       \E d \in BOOLEAN :
          Construct(vs, es, ws, d)

NextHG ==
    \/ CallConstruct
    \/ \E v \in Vertices \cup {Unhashable} : CallAddVertex(v)
    \/ \E v \in Vertices : CallRemoveVertex(v)
    \/ \E e \in AllEdges : \E w \in WeightValues : CallAddEdge(e, w)
    \/ \E e \in AllEdges : CallRemoveEdge(e)

SpecHG == InitHG /\ [][NextHG]_vars

----------------------------------------------------------------------------
(* The Graph machine: one Graph object and the calls it inherits *)

\* Graph(vertices, edges, weights, directed), once
CallConstructGraph ==
    /\ last.op = "none"
    /\ \E vs \in SUBSET (Vertices \cup {Unhashable}) :
       \E es \in EdgeSets :
       \E ws \in WeightArgs(es) :
       \E d \in BOOLEAN :
          LET r == GraphInit(vs, es, ws, d)
          IN  /\ G' = r.obj
              /\ last' = [op |-> "__init__", exc |-> r.exc]
    /\ UNCHANGED <<impl, vhash, made, orVars>>

NextGraph ==
    \/ CallConstructGraph
    \/ \E v \in Vertices \cup {Unhashable} : CallAddVertex(v)
    \/ \E v \in Vertices : CallRemoveVertex(v)
    \/ \E e \in AllEdges : \E w \in WeightValues : CallAddEdge(e, w)
    \/ \E e \in AllEdges : CallRemoveEdge(e)

SpecGraph == InitHG /\ [][NextGraph]_vars

----------------------------------------------------------------------------
(* The Edge machine: calls of Edge(edge, head) on every argument *)

\* the __hash__ values the vertex values may have; the integer 0 hashes to 0
VertexHashes == { f \in [Vertices -> 0 .. MaxHash] : f[0] = 0 }

InitEdge ==
    /\ impl \in Modules
    /\ G = NoObject
    /\ last = [op |-> "none", exc |-> "none"]
    /\ vhash \in VertexHashes
    /\ made = {}
    /\ OrientIdle

\* Edge(members, head=head)
CallEdge(members, head) ==
    /\ LET r == EdgeNew(members, head)
       IN  /\ last' = [op |-> "Edge", exc |-> r.exc]
           /\ IF r.exc = "none"
              THEN /\ Cardinality(made \cup {r.edge}) <= MaxEdges
                   /\ made' = made \cup {r.edge}
              ELSE made' = made
    /\ UNCHANGED <<impl, G, vhash, orVars>>

NextEdge ==
    \E members \in SUBSET (Vertices \cup {Unhashable}) :
    \E head \in Vertices \cup {None} :
        CallEdge(members, head)

SpecEdge == InitEdge /\ [][NextEdge]_vars

----------------------------------------------------------------------------
(* Inputs of the orientation algorithms *)

\* an undirected edge over named (truthy) vertices
Plain(members) == [members |-> members, head |-> None]

\* the undirected hypergraphs over vertices 1 .. n with at most MaxE edges,
\* every edge of weight 1.0
UnweightedInputs(n) ==
    { HypergraphInit(1 .. n, es, <<>>, FALSE).obj :
        es \in { s \in SUBSET { Plain(m) : m \in (SUBSET (1 .. n)) \ {{}} } :
                   Cardinality(s) <= MaxE } }

\* the 4-cycle a-b-c-d-a
Cycle4 ==
    HypergraphInit(1 .. 4,
                   { Plain({1, 2}), Plain({2, 3}), Plain({3, 4}), Plain({4, 1}) },
                   <<>>, FALSE).obj

\* the 5-cycle 1-2-4-5-3-1: from 1 the vertex 5 is two steps away through 3
\* and three steps away through 2 and 4
Cycle5 ==
    HypergraphInit(1 .. 5,
                   { Plain({1, 2}), Plain({2, 4}), Plain({4, 5}), Plain({5, 3}),
                     Plain({3, 1}) },
                   <<>>, FALSE).obj

\* the star of 5 leaves 1 .. 5 around the centre 6
Star5 ==
    HypergraphInit(1 .. 6, { Plain({i, 6}) : i \in 1 .. 5 }, <<>>, FALSE).obj

----------------------------------------------------------------------------
(* minimum_maximum_indegree_orientation *)

\* the largest of a nonempty set of numbers
Max(S) == CHOOSE x \in S : \A y \in S : y <= x
Min(S) == CHOOSE x \in S : \A y \in S : x <= y

\* the orders in which a loop may go through a set
Orders(S) ==
    { f \in [1 .. Cardinality(S) -> S] : \A i, j \in DOMAIN f : i # j => f[i] # f[j] }

\* L.add_edge(Edge(edge, head=h[edge])) for every edge of es
RECURSIVE AddHeaded(_, _, _)
AddHeaded(g, es, h) ==
    IF es = {} THEN [exc |-> "none", obj |-> g]
    ELSE LET e == CHOOSE x \in es : TRUE
             n == EdgeNew(e.members, h[e])
             r == IF n.exc # "none" THEN [exc |-> n.exc, obj |-> g]
                  ELSE AddEdge(g, n.edge, One)
         IN  IF r.exc # "none" THEN r ELSE AddHeaded(r.obj, es \ {e}, h)

\* find_reducing_path with the endpoint test one looser
IsEndpointLooser(D, u, w) == D[w] < D[u]

\* find_reducing_path with the endpoint test one stricter
IsEndpointStricter(D, u, w) == D[w] < D[u] - 2

\* find_reducing_path: w ends the path
IsEndpoint(D, u, w) == D[w] < D[u] - 1

\* find_reducing_path: the search goes on through w
IsPassable(D, u, w) == D[w] <= D[u]

\* the vertices `degrees_rev[max(degrees_rev.keys())]` may be
VmaxChoices(D) == { v \in DOMAIN D : \A w \in DOMAIN D : D[w] <= D[v] }

\* Q.pop(): the entry taken and the list left
PopQ(Q) == [item |-> Q[Len(Q)], rest |-> SubSeq(Q, 1, Len(Q) - 1)]

\* the reversing loop without remove_edge
RECURSIVE ReversePathKeepsOld(_, _)
ReversePathKeepsOld(g, p) ==
    IF p = <<>> THEN [exc |-> "none", obj |-> g]
    ELSE LET r == AddEdge(g, EdgeNew(p[1][1].members, p[1][2]).edge, One)
         IN  IF r.exc # "none" THEN r ELSE ReversePathKeepsOld(r.obj, Tail(p))

\* the reversing loop stopping after the first step of the path
ReversePathFirstStep(g, p) ==
    IF p = <<>> THEN [exc |-> "none", obj |-> g]
    ELSE LET r1 == RemoveEdge(g, p[1][1])
         IN  IF r1.exc # "none" THEN r1
             ELSE AddEdge(r1.obj, EdgeNew(p[1][1].members, p[1][2]).edge, One)

\* the loop reversing the path: remove_edge, then add_edge with the new head
RECURSIVE ReversePath(_, _)
ReversePath(g, p) ==
    IF p = <<>> THEN [exc |-> "none", obj |-> g]
    ELSE LET e == p[1][1]
             v == p[1][2]
             r1 == RemoveEdge(g, e)
             n == EdgeNew(e.members, v)
             r2 == IF r1.exc # "none" THEN r1
                   ELSE IF n.exc # "none" THEN [exc |-> n.exc, obj |-> r1.obj]
                   ELSE AddEdge(r1.obj, n.edge, One)
         IN  IF r2.exc # "none" THEN r2 ELSE ReversePath(r2.obj, Tail(p))

InitExact ==
    /\ impl = "flat"
    /\ G = NoObject
    /\ last = [op |-> "none", exc |-> "none"]
    /\ EdgeIdle
    /\ alg = "exact"
    /\ H \in (UNION { UnweightedInputs(n) : n \in 1 .. MaxV }) \cup {Cycle4, Cycle5, Star5}
    /\ L = NoObject
    /\ pc = "orient"
    /\ search = NoSearch
    /\ path = <<>>
    /\ todo = {}
    /\ run = 1
    /\ moves = NoMoves
    /\ refs = NoSets

\* lines 365-367: L, an arbitrary orientation of H
XOrient ==
    /\ alg = "exact" /\ pc = "orient"
    /\ \E h \in [H.edges -> H.vertices] :
          /\ \A e \in H.edges : h[e] \in e.members
          /\ LET r == AddHeaded(HypergraphInit(H.vertices, {}, <<>>, TRUE).obj,
                                H.edges, h)
             IN  /\ L' = r.obj
                 /\ pc' = IF r.exc = "none" THEN "loop" ELSE "raised"
    /\ refs' = InitSets(HSets.vertices, DefaultSet)
    /\ H' = Seen(H, refs', L')
    /\ UNCHANGED <<dsVars, alg, search, path, todo, run, moves>>

\* lines 369-375: the degrees, vmax, and the start of find_reducing_path
XPickVmax ==
    /\ alg = "exact" /\ pc = "loop"
    /\ LET D == [v \in L.vertices |-> Indegree(L, v, FALSE)]
       IN  \E u \in VmaxChoices(D) :
              search' = [D |-> D, u |-> u, marked |-> {u},
                         Q |-> << [v |-> u, path |-> <<>>] >>,
                         cur |-> [v |-> None, path |-> <<>>], edges |-> {}]
    /\ pc' = "search"
    /\ UNCHANGED <<dsVars, alg, H, L, path, todo, run, moves, refs>>

\* lines 350-352: take an entry off Q and list the edges headed at its vertex
XPop ==
    /\ alg = "exact" /\ pc = "search"
    /\ search.Q # <<>>
    /\ LET p == PopQ(search.Q)
           es == { e \in L.edges : e.head = p.item.v }
       IN  /\ search' = [search EXCEPT !.Q = p.rest, !.cur = p.item, !.edges = es]
           /\ pc' = IF es = {} THEN "search" ELSE "expand"
    /\ UNCHANGED <<dsVars, alg, H, L, path, todo, run, moves, refs>>

\* lines 353-360: one edge of the list, its vertices in some order
XEdge ==
    /\ alg = "exact" /\ pc = "expand"
    /\ \E e \in search.edges :
       LET fresh == e.members \ search.marked
           ends == { w \in fresh : IsEndpoint(search.D, search.u, w) }
           pass == { w \in fresh : IsPassable(search.D, search.u, w) }
       IN  IF ends # {}
           THEN \E w \in ends :
                   /\ path' = Append(search.cur.path, <<e, w>>)
                   /\ pc' = "reverse"
                   /\ search' = NoSearch
           ELSE \E o \in Orders(pass) :
                   /\ search' = [search EXCEPT
                          !.marked = @ \cup pass,
                          !.Q = @ \o [i \in DOMAIN o |->
                                        [v |-> o[i],
                                         path |-> Append(search.cur.path, <<e, o[i]>>)]],
                          !.edges = @ \ {e}]
                   /\ pc' = IF search.edges \ {e} = {} THEN "search" ELSE "expand"
                   /\ path' = path
    /\ UNCHANGED <<dsVars, alg, H, L, todo, run, moves, refs>>

\* lines 361, 375-378: Q is empty, path is None, L is returned
XReturn ==
    /\ alg = "exact" /\ pc = "search"
    /\ search.Q = <<>>
    /\ pc' = "done"
    /\ search' = NoSearch
    /\ path' = <<>>
    /\ UNCHANGED <<dsVars, alg, H, L, todo, run, moves, refs>>

\* lines 380-382: reverse the path
XReverse ==
    /\ alg = "exact" /\ pc = "reverse"
    /\ LET r == ReversePath(L, path)
       IN  /\ L' = r.obj
           /\ pc' = IF r.exc = "none" THEN "loop" ELSE "raised"
    /\ moves' = [moves EXCEPT !.rev = Counted(@)]
    /\ H' = Seen(H, refs, L')
    /\ UNCHANGED <<dsVars, alg, search, path, todo, run, refs>>

\* the vertices and the edges of the calls made on L after its return
LaterVertices == 1 .. (MaxV + 1)
LaterEdges(g) == { e \in EdgeValues(g.vertices) : e.head # None }

\* after the return, the caller calls L.add_vertex(v) or L.add_edge(e)
LaterCall ==
    /\ pc = "done"
    /\ \E r \in { AddVertex(L, v) : v \in LaterVertices }
               \cup { AddEdge(L, e, One) : e \in LaterEdges(L) } :
          L' = r.obj
    /\ H' = Seen(H, refs, L')
    /\ pc' = "used"
    /\ UNCHANGED <<dsVars, alg, search, path, todo, run, moves, refs>>

\* the caller of minimum_maximum_indegree_orientation goes on with L
XLater == alg = "exact" /\ LaterCall

NextExact ==
    \/ XOrient
    \/ XPickVmax
    \/ XPop
    \/ XEdge
    \/ XReturn
    \/ XReverse
    \/ XLater

SpecExact == InitExact /\ [][NextExact]_vars

\* the function runs on: a step that can be taken is taken
SpecExactFair == SpecExact /\ WF_vars(NextExact)

----------------------------------------------------------------------------
(* minimum_maximum_weighted_indegree_orientation *)

\* the weights of the inputs: 1.0, 2.0, ... and 1.0001, one tolerance above 1.0
InputWeights == { w * One : w \in 1 .. MaxW } \cup {One + Tol}

\* the undirected hypergraphs over vertices 1 .. n with at most MaxE edges,
\* each of a positive weight
WeightedInputs(n) ==
    UNION { { HypergraphInit(1 .. n, es, ws, FALSE).obj :
                ws \in [es -> InputWeights] } :
            es \in { s \in SUBSET { Plain(m) : m \in (SUBSET (1 .. n)) \ {{}} } :
                       Cardinality(s) <= MaxE } }

\* a call that raised leaves its exception; otherwise the next call runs
Bind(r, F(_)) == IF r.exc # "none" THEN r ELSE F(r.obj)

\* min([v for v in edge]): the least member, whatever the indegrees
GreedyHeadLeastVertex(g, e) ==
    CHOOSE v \in e.members : \A w \in e.members : v <= w

\* min([(L.indegree(v), v) for v in edge])[1]
GreedyHead(g, e) ==
    CHOOSE v \in e.members :
        \A w \in e.members :
            \/ Indegree(g, v, TRUE) < Indegree(g, w, TRUE)
            \/ (Indegree(g, v, TRUE) = Indegree(g, w, TRUE) /\ v <= w)

\* max([(L.indegree(v), v) for v in L.vertices])[1]
Mmax(g) ==
    CHOOSE v \in g.vertices :
        \A w \in g.vertices :
            \/ Indegree(g, w, TRUE) < Indegree(g, v, TRUE)
            \/ (Indegree(g, w, TRUE) = Indegree(g, v, TRUE) /\ w <= v)

\* Emax: the (vertex, edge) pairs of the edges headed at mmax
Emax(g) ==
    LET mmax == Mmax(g)
        Jmax == { e \in g.edges : e.head = mmax }
    IN  { <<i, j>> \in (g.vertices \ {mmax}) \X Jmax : i \in j.members }

\* H.weights[Edge(edge)] raises KeyError
KeyMissing(h, e) == Unhead(e) \notin DOMAIN h.weights

\* H.weights[Edge(edge)]
HWeight(h, e) == h.weights[Unhead(e)]

\* the test of search NR without the weight of the edge
NRImprovesWeightless(h, g, i, j) ==
    Indegree(g, i, TRUE) + Tol < Indegree(g, Mmax(g), TRUE)

\* the test of search NR on the pair (vertex, edge)
NRImproves(h, g, i, j) ==
    Indegree(g, i, TRUE) + Tol < Indegree(g, Mmax(g), TRUE) - HWeight(h, j)

\* the NR move with add_edge called without `weight=`: the default, 1.0
NRApplyDefaultWeight(h, g, i, j) ==
    Bind(RemoveEdge(g, j),
         LAMBDA g1 : LET n == EdgeNew(j.members, i)
                     IN  IF n.exc # "none" THEN [exc |-> n.exc, obj |-> g1]
                         ELSE AddEdge(g1, n.edge, One))

\* the accepted NR move: the edge is removed and added again headed at vertex
NRApply(h, g, i, j) ==
    Bind(RemoveEdge(g, j),
         LAMBDA g1 : LET n == EdgeNew(j.members, i)
                     IN  IF n.exc # "none" THEN [exc |-> n.exc, obj |-> g1]
                         ELSE AddEdge(g1, n.edge, HWeight(h, j)))

\* M after M.sort(cmp=...): the vertices by increasing indegree, equal
\* indegrees in the order the set gave them
SortedOrders(g) ==
    { M \in Orders(g.vertices) :
        \A a, b \in DOMAIN M :
            a < b => Indegree(g, M[a], TRUE) <= Indegree(g, M[b], TRUE) }

\* the pairs (j, k) search NI tries for m1 and m2
NICandidates(g, m1, m2) ==
    { <<j, k>> \in g.edges \X g.edges :
        /\ j.head = m1 /\ m2 \in j.members
        /\ k.head = m2 /\ m1 \in k.members }

\* the test of search NI with a tolerance of 1.0 more
NIImprovesByOne(h, g, m1, m2, j, k) ==
    LET a == Indegree(g, m1, TRUE) - HWeight(h, j) + HWeight(h, k)
        b == Indegree(g, m2, TRUE) - HWeight(h, k) + HWeight(h, j)
    IN  Max({a, b}) + Tol + One
            < Max({Indegree(g, m1, TRUE), Indegree(g, m2, TRUE)})

\* the test of search NI on the new load of m1 alone
NIImprovesFirstLoad(h, g, m1, m2, j, k) ==
    LET a == Indegree(g, m1, TRUE) - HWeight(h, j) + HWeight(h, k)
    IN  a + Tol < Max({Indegree(g, m1, TRUE), Indegree(g, m2, TRUE)})

\* the test of search NI on the swap of j and k
NIImproves(h, g, m1, m2, j, k) ==
    LET a == Indegree(g, m1, TRUE) - HWeight(h, j) + HWeight(h, k)
        b == Indegree(g, m2, TRUE) - HWeight(h, k) + HWeight(h, j)
    IN  Max({a, b}) + Tol < Max({Indegree(g, m1, TRUE), Indegree(g, m2, TRUE)})

\* positions a (of m1) and b (of m2) of M that the loops of search NI reach:
\* m1 runs down reversed(M), m2 runs up M and stops at m1
NIPairs(M) == { <<a, b>> \in (DOMAIN M) \X (DOMAIN M) : b < a }

\* the loops reach the pair at p before the pair at q
NIBefore(p, q) == p[1] > q[1] \/ (p[1] = q[1] /\ p[2] < q[2])

\* the pair of positions has a swap that passes the test
NIHit(h, g, M, p) ==
    \E c \in NICandidates(g, M[p[1]], M[p[2]]) :
        NIImproves(h, g, M[p[1]], M[p[2]], c[1], c[2])

\* the swaps <<m1, m2, j, k>> search NI may accept first
NIChoices(h, g) ==
    { <<M[p[1]], M[p[2]], c[1], c[2]>> :
        <<M, p, c>> \in
            { x \in SortedOrders(g) \X ((1 .. Cardinality(g.vertices)) \X
                                        (1 .. Cardinality(g.vertices)))
                     \X (g.edges \X g.edges) :
                /\ x[2] \in NIPairs(x[1])
                /\ x[3] \in NICandidates(g, x[1][x[2][1]], x[1][x[2][2]])
                /\ NIImproves(h, g, x[1][x[2][1]], x[1][x[2][2]], x[3][1], x[3][2])
                /\ \A q \in NIPairs(x[1]) :
                      NIBefore(q, x[2]) => ~NIHit(h, g, x[1], q) } }

\* the accepted NI swap: both edges removed, both added with swapped heads
NIApply(h, g, m1, m2, j, k) ==
    Bind(RemoveEdge(g, j), LAMBDA g1 :
    Bind(RemoveEdge(g1, k), LAMBDA g2 :
    Bind(IF EdgeNew(j.members, m2).exc # "none"
         THEN [exc |-> EdgeNew(j.members, m2).exc, obj |-> g2]
         ELSE AddEdge(g2, EdgeNew(j.members, m2).edge, HWeight(h, j)), LAMBDA g3 :
         IF EdgeNew(k.members, m1).exc # "none"
         THEN [exc |-> EdgeNew(k.members, m1).exc, obj |-> g3]
         ELSE AddEdge(g3, EdgeNew(k.members, m1).edge, HWeight(h, k)))))

InitWeighted ==
    /\ impl = "flat"
    /\ G = NoObject
    /\ last = [op |-> "none", exc |-> "none"]
    /\ EdgeIdle
    /\ alg = "weighted"
    /\ H \in UNION { WeightedInputs(n) : n \in 1 .. MaxV }
    /\ L = NoObject
    /\ pc = "start"
    /\ search = NoSearch
    /\ path = <<>>
    /\ todo = {}
    /\ run = 1
    /\ moves = NoMoves
    /\ refs = NoSets

\* line 403: L = Hypergraph(vertices=H.vertices, directed=True)
WStart ==
    /\ alg = "weighted" /\ pc = "start"
    /\ L' = HypergraphInit(H.vertices, {}, <<>>, TRUE).obj
    /\ todo' = H.edges
    /\ pc' = "greedy"
    /\ refs' = InitSets(HSets.vertices, DefaultSet)
    /\ H' = Seen(H, refs', L')
    /\ UNCHANGED <<dsVars, alg, search, path, run, moves>>

\* lines 405-407: the next edge of H, headed at its least loaded vertex
WGreedy ==
    /\ alg = "weighted" /\ pc = "greedy"
    /\ \E e \in todo :
          LET n == EdgeNew(e.members, GreedyHead(L, e))
              r == IF n.exc # "none" THEN [exc |-> n.exc, obj |-> L]
                   ELSE AddEdge(L, n.edge, H.weights[e])
          IN  /\ L' = r.obj
              /\ todo' = todo \ {e}
              /\ pc' = IF r.exc = "none" THEN "greedy" ELSE "raised"
    /\ H' = Seen(H, refs, L')
    /\ UNCHANGED <<dsVars, alg, search, path, run, moves, refs>>

\* the loop over H.edges is over
WGreedyEnd ==
    /\ alg = "weighted" /\ pc = "greedy"
    /\ todo = {}
    /\ pc' = "NR"
    /\ UNCHANGED <<dsVars, alg, H, L, search, path, todo, run, moves, refs>>

\* lines 416-424: a pair popped from Emax passes the test and is applied
WNRMove ==
    /\ alg = "weighted" /\ pc = "NR"
    /\ \E x \in Emax(L) :
          /\ ~KeyMissing(H, x[2])
          /\ NRImproves(H, L, x[1], x[2])
          /\ LET r == NRApply(H, L, x[1], x[2])
             IN  /\ L' = r.obj
                 /\ pc' = IF r.exc = "none" THEN "NR" ELSE "raised"
    /\ moves' = [moves EXCEPT !.nr = Counted(@)]
    /\ H' = Seen(H, refs, L')
    /\ UNCHANGED <<dsVars, alg, search, path, todo, run, refs>>

\* lines 418-419: H has no weight for Edge(edge)
WNRRaise ==
    /\ alg = "weighted" /\ pc = "NR"
    /\ \E x \in Emax(L) : KeyMissing(H, x[2])
    /\ pc' = "raised"
    /\ UNCHANGED <<dsVars, alg, H, L, search, path, todo, run, moves, refs>>

\* lines 410-416: Emax is emptied and no pair passed the test
WNRExit ==
    /\ alg = "weighted" /\ pc = "NR"
    /\ \A x \in Emax(L) : ~KeyMissing(H, x[2]) /\ ~NRImproves(H, L, x[1], x[2])
    /\ pc' = "NI"
    /\ UNCHANGED <<dsVars, alg, H, L, search, path, todo, run, moves, refs>>

\* lines 433-452: the first swap that passes the test is applied
WNISwap ==
    /\ alg = "weighted" /\ pc = "NI"
    /\ \A m1, m2 \in L.vertices :
          \A c \in NICandidates(L, m1, m2) : ~KeyMissing(H, c[1]) /\ ~KeyMissing(H, c[2])
    /\ \E s \in NIChoices(H, L) :
          LET r == NIApply(H, L, s[1], s[2], s[3], s[4])
          IN  /\ L' = r.obj
              /\ pc' = IF r.exc = "none" THEN "NI" ELSE "raised"
    /\ moves' = [moves EXCEPT !.ni = Counted(@)]
    /\ H' = Seen(H, refs, L')
    /\ UNCHANGED <<dsVars, alg, search, path, todo, run, refs>>

\* lines 441-444: H has no weight for Edge(j) or Edge(k)
WNIRaise ==
    /\ alg = "weighted" /\ pc = "NI"
    /\ \E m1, m2 \in L.vertices :
          \E c \in NICandidates(L, m1, m2) : KeyMissing(H, c[1]) \/ KeyMissing(H, c[2])
    /\ pc' = "raised"
    /\ UNCHANGED <<dsVars, alg, H, L, search, path, todo, run, moves, refs>>

\* lines 427-455: a full pass accepted nothing, L is returned
WNIExit ==
    /\ alg = "weighted" /\ pc = "NI"
    /\ \A m1, m2 \in L.vertices :
          \A c \in NICandidates(L, m1, m2) :
              /\ ~KeyMissing(H, c[1]) /\ ~KeyMissing(H, c[2])
              /\ ~NIImproves(H, L, m1, m2, c[1], c[2])
    /\ pc' = "done"
    /\ UNCHANGED <<dsVars, alg, H, L, search, path, todo, run, moves, refs>>

\* the caller passes the returned L to the function again
WRerun ==
    /\ alg = "weighted" /\ pc = "done" /\ run = 1
    /\ H' = L
    /\ L' = NoObject
    /\ pc' = "start"
    /\ run' = 2
    /\ moves' = NoMoves
    /\ refs' = NoSets
    /\ UNCHANGED <<dsVars, alg, search, path, todo>>

\* the caller of minimum_maximum_weighted_indegree_orientation goes on with L
WLater == alg = "weighted" /\ LaterCall

NextWeighted ==
    \/ WStart
    \/ WGreedy
    \/ WGreedyEnd
    \/ WNRMove
    \/ WNRRaise
    \/ WNRExit
    \/ WNISwap
    \/ WNIRaise
    \/ WNIExit
    \/ WRerun
    \/ WLater

SpecWeighted == InitWeighted /\ [][NextWeighted]_vars

\* the function runs on: a step that can be taken is taken
SpecWeightedFair == SpecWeighted /\ WF_vars(NextWeighted)

\* either algorithm, on its inputs
SpecOrient ==
    (InitExact \/ InitWeighted) /\ [][NextExact \/ NextWeighted]_vars

----------------------------------------------------------------------------
(* Properties of minimum_maximum_indegree_orientation *)

\* the assignments of one member vertex as head to each edge of h
HeadAssignments(h) ==
    { f \in [h.edges -> h.vertices] : \A e \in h.edges : f[e] \in e.members }

\* the largest number of edges an assignment heads at one vertex
AssignmentMax(h, f) ==
    Max({ Cardinality({ e \in h.edges : f[e] = v }) : v \in h.vertices })

\* the minimum, over all assignments, of the maximum indegree
OptimalMaxIndegree(h) ==
    Min({ AssignmentMax(h, f) : f \in HeadAssignments(h) })

\* the maximum over the vertices of the number of edges of g headed there
MaxHeadCount(g) ==
    Max({ Cardinality({ e \in g.edges : e.head = v }) : v \in g.vertices })

\* C1: when minimum_maximum_indegree_orientation returns, the maximum
\* unweighted indegree of L is the minimum, over all assignments of a member
\* vertex as head to each edge of H, of the maximum indegree, whatever the
\* initial orientation was; it is 1 for the 4-cycle and for the 5-leaf star.
C1_ExactIsOptimal ==
    (alg = "exact" /\ pc = "done") =>
        /\ MaxHeadCount(L) = OptimalMaxIndegree(H)
        /\ (H \in {Cycle4, Star5} => MaxHeadCount(L) = 1)

\* the algorithm has returned after two path reversals, on the star too
C1_Witness ==
    /\ alg = "exact" /\ pc = "done"
    /\ moves.rev >= 2
    /\ H = Star5

\* C5: minimum_maximum_indegree_orientation terminates: from every initial
\* orientation the loop of path reversals reaches the state in which
\* find_reducing_path returns no path and L is returned.
C5_ExactTerminates == <>(alg = "exact" /\ pc = "done")

\* the function has returned after three path reversals
C5_Witness ==
    /\ alg = "exact" /\ pc = "done"
    /\ moves.rev >= 3

\* C18: a path reversal takes one off the unweighted indegree of vmax, adds
\* one to the indegree of the last vertex w of the path, which stays below the
\* indegree vmax had, and leaves the indegree of every other vertex as it was;
\* so the maximum indegree of L does not increase.
C18_ReversalMovesOneUnit ==
    [][ XReverse =>
          LET vmax == path[1][1].head
              w == path[Len(path)][2]
          IN  /\ pc' = "loop"
              /\ Indegree(L', vmax, FALSE) = Indegree(L, vmax, FALSE) - 1
              /\ Indegree(L', w, FALSE) = Indegree(L, w, FALSE) + 1
              /\ Indegree(L', w, FALSE) < Indegree(L, vmax, FALSE)
              /\ \A v \in L.vertices \ {vmax, w} :
                     Indegree(L', v, FALSE) = Indegree(L, v, FALSE)
              /\ MaxHeadCount(L') <= MaxHeadCount(L) ]_vars

\* a path of two steps or more has been reversed: its last edge is headed at
\* its last vertex
C18_Witness ==
    /\ alg = "exact" /\ pc = "loop"
    /\ Len(path) >= 2
    /\ [members |-> path[Len(path)][1].members, head |-> path[Len(path)][2]]
           \in L.edges

\* the vertices one step from a set of vertices: the members of the edges
\* headed there
StepFrom(g, vs) ==
    UNION { e.members : e \in { x \in g.edges : x.head \in vs } }

\* the number of steps of the shortest reducing path from u, the vertices of
\* `seen` being n steps away at most and those of `frontier` exactly n;
\* 0 if there is no reducing path
RECURSIVE FewestSteps(_, _, _, _, _)
FewestSteps(g, u, frontier, seen, n) ==
    LET next == StepFrom(g, frontier) \ seen
    IN  IF next = {} THEN 0
        ELSE IF \E w \in next :
                   Indegree(g, w, FALSE) < Indegree(g, u, FALSE) - 1
        THEN n + 1
        ELSE FewestSteps(g, u, next, seen \cup next, n + 1)

\* C19: the path find_reducing_path returns has the fewest steps of all
\* reducing paths from vmax, as a breadth-first search finds it.
C19_ReturnedPathIsShortest ==
    (alg = "exact" /\ pc = "reverse") =>
        LET vmax == path[1][1].head
        IN  Len(path) = FewestSteps(L, vmax, {vmax}, {vmax}, 0)

----------------------------------------------------------------------------
(* Properties of minimum_maximum_weighted_indegree_orientation *)

\* C2: in the L that minimum_maximum_weighted_indegree_orientation returns,
\* no edge headed at the vertex mmax of maximum weighted indegree has another
\* member i with indegree(i) + weight(edge) < indegree(mmax), beyond the
\* tolerance: L is a local optimum of the NR neighbourhood.
C2_ReturnedIsNROptimal ==
    (alg = "weighted" /\ run = 1 /\ pc = "done") =>
        \A e \in L.edges : \A i \in L.vertices :
            (e.head = Mmax(L) /\ i \in e.members /\ i # Mmax(L)) =>
                ~(Indegree(L, i, TRUE) + L.weights[e] + Tol
                    < Indegree(L, Mmax(L), TRUE))

\* C3: the call of minimum_maximum_weighted_indegree_orientation on its own
\* output completes, with no NR move and no NI swap.
C3_RerunCompletesWithoutMoves ==
    (alg = "weighted" /\ run = 2 /\ pc \in {"done", "raised"}) =>
        (pc = "done" /\ moves.nr = 0 /\ moves.ni = 0)

\* C17: in the L that minimum_maximum_weighted_indegree_orientation returns
\* there are no vertices m1, m2 and edges j headed at m1 containing m2 and k
\* headed at m2 containing m1 whose swap of heads makes the larger of the two
\* loads smaller, beyond the tolerance: L is a local optimum of the NI
\* neighbourhood.
C17_ReturnedIsNIOptimal ==
    (alg = "weighted" /\ run = 1 /\ pc = "done") =>
        \A m1, m2 \in L.vertices : \A j, k \in L.edges :
            ( /\ j.head = m1 /\ m2 \in j.members
              /\ k.head = m2 /\ m1 \in k.members )
            => LET a == Indegree(L, m1, TRUE) - L.weights[j] + L.weights[k]
                   b == Indegree(L, m2, TRUE) - L.weights[k] + L.weights[j]
               IN  ~(Max({a, b}) + Tol
                        < Max({Indegree(L, m1, TRUE), Indegree(L, m2, TRUE)}))

\* L is returned after a swap was accepted
C17_Witness ==
    /\ alg = "weighted" /\ run = 1 /\ pc = "done"
    /\ moves.ni >= 1

\* C20: minimum_maximum_weighted_indegree_orientation terminates on an
\* undirected hypergraph of positive weights: L is returned.
C20_WeightedTerminates == <>(alg = "weighted" /\ run = 1 /\ pc = "done")

\* L is returned after a move of search NR was accepted
C20_Witness ==
    /\ alg = "weighted" /\ run = 1 /\ pc = "done"
    /\ moves.nr >= 1

\* the maximum weighted indegree over the vertices of g
MaxLoad(g) == Max({ Indegree(g, v, TRUE) : v \in g.vertices })

\* C21: no accepted NR move and no accepted NI swap increases the maximum
\* weighted indegree over the vertices of L: the maximum after the move is
\* less than or equal to the maximum before it.
C21_MovesDoNotRaiseTheMaximum ==
    [][ (WNRMove \/ WNISwap) =>
          /\ pc' # "raised"
          /\ MaxLoad(L') <= MaxLoad(L) ]_vars

\* search NI has just accepted a swap and goes over the vertices again
C21_Witness ==
    /\ alg = "weighted" /\ run = 1 /\ pc = "NI"
    /\ moves.ni >= 1

----------------------------------------------------------------------------
(* Properties of both orientation algorithms *)

\* L is an orientation of H
IsOrientationOf(h, g) ==
    /\ g.directed
    /\ g.vertices = h.vertices
    /\ \A e \in h.edges :
          Cardinality({ x \in g.edges : x.members = e.members }) = 1
    /\ \A x \in g.edges :
          /\ x.head \in x.members
          /\ \E e \in h.edges : e.members = x.members

\* C4: in both algorithms, once the initial orientation is built, after every
\* path reversal and every accepted NR move or NI swap, and at return, L is
\* directed, has the vertices of H, and has exactly one edge for each edge of
\* H, with the same members and a member as head.
C4_LIsAnOrientationOfH ==
    /\ (alg = "exact" /\ pc \in {"loop", "search", "expand", "reverse", "done"})
          => IsOrientationOf(H, L)
    /\ (alg = "weighted" /\ pc \in {"NR", "NI", "done"})
          => IsOrientationOf(H, L)

\* a path reversal has been completed
C4_Witness ==
    /\ alg = "exact" /\ pc = "loop"
    /\ moves.rev >= 1
    /\ Cardinality(L.edges) >= 3

----------------------------------------------------------------------------
(* Properties of the Hypergraph object *)

\* C6: whatever calls were made, the edges of a directed hypergraph all have
\* a head and the edges of an undirected hypergraph have none.
C6_HeadsMatchDirectedness ==
    G.alive =>
        \A e \in G.edges :
            /\ G.directed => e.head # None
            /\ ~G.directed => e.head = None

\* C7: whatever calls were made, the keys of the weight mapping are exactly
\* the edges of the edge set.
C7_WeightKeysAreTheEdges ==
    G.alive => DOMAIN G.weights = G.edges

\* an edge was removed and another is left
C7_Witness ==
    /\ G.alive
    /\ last = [op |-> "remove_edge", exc |-> "none"]
    /\ G.edges # {}

\* C8: whatever calls were made, every vertex of every edge of the edge set
\* is in the vertex set.
C8_EdgeVerticesAreVertices ==
    G.alive => \A e \in G.edges : \A v \in e.members : v \in G.vertices

\* a vertex was removed, and an edge is left
C8_Witness ==
    /\ G.alive
    /\ last = [op |-> "remove_vertex", exc |-> "none"]
    /\ G.edges # {}

\* C9: remove_vertex(v) with v in the vertex set succeeds; afterwards the
\* edges that contained v and their weights are gone, v is gone, and the
\* other vertices, the other edges and their weights are as before.
C9_RemoveVertexRemovesVAndItsEdges ==
    [][ \A v \in Vertices :
          (CallRemoveVertex(v) /\ v \in G.vertices) =>
              /\ last'.exc = "none"
              /\ G'.vertices = G.vertices \ {v}
              /\ G'.edges = { e \in G.edges : v \notin e.members }
              /\ DOMAIN G'.weights = { e \in DOMAIN G.weights : v \notin e.members }
              /\ \A e \in DOMAIN G'.weights : G'.weights[e] = G.weights[e] ]_vars

\* C10: add_edge(e, weight) raises a value error exactly when a vertex of e
\* is outside the vertex set, or e has a head and the hypergraph is
\* undirected, or e has no head and the hypergraph is directed; then nothing
\* changes; otherwise e is in the edge set with the weight supplied.
C10_AddEdgeRejectsExactlyTheInvalid ==
    [][ \A e \in AllEdges : \A w \in WeightValues :
          CallAddEdge(e, w) =>
              LET invalid == \/ \E v \in e.members : v \notin G.vertices
                             \/ (e.head # None /\ ~G.directed)
                             \/ (e.head = None /\ G.directed)
              IN  /\ last'.exc = "ValueError" <=> invalid
                  /\ invalid => G' = G
                  /\ ~invalid => (e \in G'.edges /\ G'.weights[e] = w) ]_vars

\* C11: remove_vertex(v) with v not in the vertex set, and remove_edge(e)
\* with e not in the edge set, each raise a lookup error (KeyError) and leave
\* the vertices, the edges and the weights as they were.
C11_RemovingTheAbsentIsALookupError ==
    [][ /\ \A v \in Vertices :
             (CallRemoveVertex(v) /\ v \notin G.vertices) =>
                 (last'.exc = "KeyError" /\ G' = G)
        /\ \A e \in AllEdges :
             (CallRemoveEdge(e) /\ e \notin G.edges) =>
                 (last'.exc = "KeyError" /\ G' = G) ]_vars

----------------------------------------------------------------------------
(* Properties of Edge *)

\* C12: every Edge that exists has no head or has one of its members as
\* head: Edge(members, head) raised a value error for any other head.
C12_HeadIsAMember ==
    \A e \in made : e.head # None => e.head \in e.members

\* C13: for distinct vertices a and b, any two of the edges Edge({a,b}),
\* Edge({a,b}, head=a) and Edge({a,b}, head=b) are unequal and have different
\* hashes, whatever the hashes of the vertices are.
C13_HeadsTellEdgesApart ==
    \A e1, e2 \in made :
        ( /\ Cardinality(e1.members) = 2
          /\ e1.members = e2.members
          /\ e1.head \in e1.members \cup {None}
          /\ e2.head \in e2.members \cup {None}
          /\ e1.head # e2.head )
        => (~EdgeEq(e1, e2) /\ EdgeHash(vhash, e1) # EdgeHash(vhash, e2))

----------------------------------------------------------------------------
(* Properties of the queries of Hypergraph *)

\* the sum of the recorded weights of a set of edges
RECURSIVE WeightSum(_, _)
WeightSum(g, es) ==
    IF es = {} THEN 0
    ELSE LET e == CHOOSE x \in es : TRUE
         IN  g.weights[e] + WeightSum(g, es \ {e})

\* C14: degree(v, weighted=True) is the sum of the recorded weights of the
\* edges containing v, and degree(v, weighted=False) is their number.
C14_DegreeSumsTheWeights ==
    G.alive =>
        \A v \in G.vertices :
            LET es == { e \in G.edges : v \in e.members }
            IN  /\ Degree(G, v, TRUE) = WeightSum(G, es)
                /\ Degree(G, v, FALSE) = Cardinality(es)

\* C16: neighbors(v) is, in a directed hypergraph, the set of the vertices u
\* other than v such that an edge containing v and u has head u, and in an
\* undirected hypergraph the set of the vertices u other than v such that an
\* edge contains v and u.
C16_NeighborsFollowDirection ==
    G.alive =>
        \A v \in Vertices :
            Neighbors(impl, G, v) =
                IF G.directed
                THEN { u \in Vertices \ {v} :
                         \E e \in G.edges :
                            v \in e.members /\ u \in e.members /\ e.head = u }
                ELSE { u \in Vertices \ {v} :
                         \E e \in G.edges : v \in e.members /\ u \in e.members }

----------------------------------------------------------------------------
(* Properties of Graph *)

\* C15: every edge of a Graph has exactly two vertices, so that
\* Graph.uniform(2) agrees with the scan of the edges.
C15_GraphEdgesAreBinary ==
    (G.alive /\ G.cls = "Graph") =>
        /\ \A e \in G.edges : Cardinality(e.members) = 2
        /\ Uniform(G, 2) = HypergraphUniform(G, 2)

----------------------------------------------------------------------------
(* Further properties of minimum_maximum_weighted_indegree_orientation *)

\* the sum of the weighted indegrees of a set of vertices of g
RECURSIVE LoadSum(_, _)
LoadSum(g, vs) ==
    IF vs = {} THEN 0
    ELSE LET v == CHOOSE x \in vs : TRUE
         IN  Indegree(g, v, TRUE) + LoadSum(g, vs \ {v})

\* C22: after the greedy construction and after every accepted NR move or NI
\* swap, the weight L records for each directed edge is the weight H records
\* for the edge of the same member set, and the sum over all vertices of the
\* weighted indegree in L is the total weight of the edges of H.
C22_LCarriesTheWeightsOfH ==
    (alg = "weighted" /\ pc \in {"NR", "NI", "done"}) =>
        /\ DOMAIN L.weights = L.edges
        /\ \A e \in L.edges :
              \E x \in H.edges :
                  x.members = e.members /\ L.weights[e] = H.weights[x]
        /\ LoadSum(L, L.vertices) = WeightSum(H, H.edges)

\* search NR has moved an edge in an L with a weight other than 1.0
C22_Witness ==
    /\ alg = "weighted" /\ run = 1 /\ pc = "NR"
    /\ moves.nr >= 1
    /\ \E e \in L.edges : L.weights[e] # One

\* C23: in the greedy construction, in every processing order of the edges of
\* H, each edge is added to L headed at one of its members whose weighted
\* indegree in L, at the moment the edge is inserted, is the minimum over the
\* members of the edge.
C23_GreedyHeadsAtALeastLoadedMember ==
    [][ WGreedy =>
          /\ pc' = "greedy"
          /\ Cardinality(L'.edges \ L.edges) = 1
          /\ \A n \in L'.edges \ L.edges :
                /\ Unhead(n) \in { Unhead(e) : e \in todo \ todo' }
                /\ n.head \in n.members
                /\ \A w \in n.members :
                      Indegree(L, n.head, TRUE) <= Indegree(L, w, TRUE) ]_vars

\* the greedy loop has headed an edge at a member other than its least one
C23_Witness ==
    /\ alg = "weighted" /\ run = 1 /\ pc = "greedy"
    /\ \E e \in L.edges : \E w \in e.members : w < e.head

----------------------------------------------------------------------------
(* The input of the orientation algorithms *)

\* C24: neither orientation algorithm modifies its input: with every step of
\* a call, and with a later add_vertex or add_edge on the returned L, the
\* vertex set, edge set, weight mapping and directedness flag of H stay what
\* they were before the call, and the returned L holds neither the vertex
\* set object nor the edge set object of H.
C24_InputIsNotModified ==
    [][ run' = run =>
          /\ H' = H
          /\ pc' \in {"done", "used"} =>
                /\ refs'.vertices \notin {HSets.vertices, HSets.edges}
                /\ refs'.edges \notin {HSets.vertices, HSets.edges} ]_vars

\* minimum_maximum_indegree_orientation has returned after a path reversal,
\* and a vertex H does not have was added to L
C24_Witness ==
    /\ alg = "exact" /\ pc = "used"
    /\ moves.rev >= 1
    /\ L.vertices # H.vertices

====
